---- MODULE Spec2Model ----
(***************************************************************************)
(* Work index validator (scripts/work_index_validator.py): the ledger,     *)
(* validate_work_index, assign_story and the `assign` command of main.     *)
(*                                                                         *)
(* Python dicts are functions whose domain is the set of keys present, so  *)
(* d.get(k, default) is Get(d, k, default) and a missing key is a key that *)
(* is not in DOMAIN d.  Story and epic ids are sequences of one-character  *)
(* strings, so that split('-'), startswith('E') and the f-string           *)
(* "EPIC-{num}" are computed character by character.  Statuses, agent ids  *)
(* and timestamps are strings that are only compared for equality and      *)
(* emptiness.                                                              *)
(***************************************************************************)
EXTENDS Integers, Sequences, FiniteSets, TLC

VARIABLES
    data,      \* the ledger dict held in memory by the caller of the core
    disk,      \* the ledger stored in WORK_INDEX_YAML
    result,    \* what the last call returned, with the arguments it was given
    assigned,  \* history: the story ids for which assign_story returned True
    local      \* per agent: how far its run of main has got, and the ledger it loaded

vars == <<data, disk, result, assigned, local>>

--------------------------------------------------------------------------
(* Python values *)

\* The argument value None of an Optional[str] parameter.
None == "<None>"

\* The dict {}.
EmptyDict == [k \in {} |-> 0]

\* d.get(k, default)
Get(d, k, default) == IF k \in DOMAIN d THEN d[k] ELSE default

\* d[k] = v on a dict: the key is added when it is missing.
Put(d, k, v) == [x \in (DOMAIN d) \cup {k} |-> IF x = k THEN v ELSE d[x]]

\* A missing id: what s.get('id') returns for a story without the key.  It is
\* no string, so it equals no id and is unlike the empty string.
NoneId == <<"<None>">>

\* bool(x) of an Optional[str]: None and '' are false.
Truthy(x) == x # None /\ x # ""
TruthyId(x) == x # NoneId /\ x # <<>>

\* sum(1 for x in seq if P(x))
CountIf(seq, P(_)) == Cardinality({i \in DOMAIN seq : P(seq[i])})

\* Index of the first '-' of s, 0 when there is none.
RECURSIVE FindDash(_, _)
FindDash(s, i) ==
    IF i > Len(s) THEN 0
    ELSE IF s[i] = "-" THEN i
    ELSE FindDash(s, i + 1)

\* '-' in s
HasDash(s) == FindDash(s, 1) # 0

\* s.split('-')[0]: everything before the first '-', all of s without one.
SplitFirst(s) ==
    IF HasDash(s) THEN SubSeq(s, 1, FindDash(s, 1) - 1) ELSE s

\* s.startswith('E')
StartsWithE(s) == Len(s) >= 1 /\ s[1] = "E"

\* f"EPIC-{epic_num}"
EpicIdOf(epic_num) == <<"E", "P", "I", "C", "-">> \o epic_num

--------------------------------------------------------------------------
(* assign_story and its parts *)

\* Mutant: the last story with the id is returned instead of the first.
get_story_by_id_Last(d, story_id) ==
    LET stories == Get(d, "stories", <<>>)
        hits == {i \in DOMAIN stories : Get(stories[i], "id", NoneId) = story_id}
    IN  IF hits = {} THEN 0 ELSE CHOOSE i \in hits : \A j \in hits : i >= j

\* The position in data['stories'] of the story get_story_by_id returns (the
\* first one whose id equals story_id), 0 when it returns None.
get_story_by_id(d, story_id) ==
    LET stories == Get(d, "stories", <<>>)
        hits == {i \in DOMAIN stories : Get(stories[i], "id", NoneId) = story_id}
    IN  IF hits = {} THEN 0 ELSE CHOOSE i \in hits : \A j \in hits : i <= j

IsInProgress(s) == Get(s, "status", None) = "in_progress"

\* Mutant: only the stories that carry an assignee are counted.
current_in_progress_OnlyAssigned(d) ==
    LET Counted(s) == IsInProgress(s) /\ "assigned_to" \in DOMAIN s
    IN  CountIf(Get(d, "stories", <<>>), Counted)

\* current_in_progress, and total_in_progress of validate_work_index
current_in_progress(d) == CountIf(Get(d, "stories", <<>>), IsInProgress)

\* Mutant: a ledger without max_agents_total allows one agent.
max_agents_total_DefaultOne(d) ==
    Get(Get(d, "concurrency", EmptyDict), "max_agents_total", 1)

\* data.get('concurrency', {}).get('max_agents_total', 0)
max_agents_total(d) == Get(Get(d, "concurrency", EmptyDict), "max_agents_total", 0)

\* data.get('active_epic', {}).get('id')
active_epic_id(d) == Get(Get(d, "active_epic", EmptyDict), "id", NoneId)

\* story_epic_prefix
story_epic_prefix(story_id) ==
    IF HasDash(story_id) THEN SplitFirst(story_id) ELSE NoneId

\* Mutant: the 'E' of the prefix is not stripped.
story_epic_id_KeepsE(story_id) ==
    LET prefix == story_epic_prefix(story_id)
    IN  IF TruthyId(prefix) /\ StartsWithE(prefix)
        THEN EpicIdOf(prefix)
        ELSE NoneId

\* story_epic_id: "EPIC-<n>" for a prefix "E<n>", None otherwise.
story_epic_id(story_id) ==
    LET prefix == story_epic_prefix(story_id)
    IN  IF TruthyId(prefix) /\ StartsWithE(prefix)
        THEN EpicIdOf(Tail(prefix))
        ELSE NoneId

\* next((epic.get('agents_allowed', 0) for epic in epics if epic.get('id') == epic_id), 0)
epic_agents_allowed(d, epic_id) ==
    LET epics == Get(d, "epics", <<>>)
        hits == {i \in DOMAIN epics : Get(epics[i], "id", NoneId) = epic_id}
    IN  IF hits = {} THEN 0
        ELSE Get(epics[CHOOSE i \in hits : \A j \in hits : i <= j], "agents_allowed", 0)

\* Mutant: the whole id is compared with the prefix.
epic_in_progress_WholeId(d, prefix) ==
    LET SameId(s) == IsInProgress(s) /\ Get(s, "id", <<>>) = prefix
    IN  CountIf(Get(d, "stories", <<>>), SameId)

\* epic_in_progress: in_progress stories whose id.split('-')[0] is the prefix.
epic_in_progress(d, prefix) ==
    LET SamePrefix(s) == IsInProgress(s) /\ SplitFirst(Get(s, "id", <<>>)) = prefix
    IN  CountIf(Get(d, "stories", <<>>), SamePrefix)

\* Mutant: the global check compares with > instead of >=.
GlobalLimitReached_OffByOne(count, limit) == count > limit

\* Mutant: the global check never refuses.
GlobalLimitReached_Never(count, limit) == FALSE

\* if current_in_progress >= max_agents
GlobalLimitReached(count, limit) == count >= limit

\* Mutant: the story's epic id is compared with the story's prefix instead of
\* the active epic's id, so the per-EPIC check never runs.
ChecksEpicLimit_Never(d, story_id) ==
    /\ TruthyId(active_epic_id(d))
    /\ TruthyId(story_epic_id(story_id))
    /\ story_epic_id(story_id) = story_epic_prefix(story_id)

\* if story_epic_id and story_epic_id == active_epic_id (inside `if active_epic_id`)
ChecksEpicLimit(d, story_id) ==
    /\ TruthyId(active_epic_id(d))
    /\ TruthyId(story_epic_id(story_id))
    /\ story_epic_id(story_id) = active_epic_id(d)

\* Mutant: the per-EPIC check compares with > instead of >=.
EpicLimitReached_OffByOne(count, allowed) == count > allowed

\* if epic_in_progress >= epic_agents_allowed
EpicLimitReached(count, allowed) == count >= allowed

\* Mutant: the assignee is recorded without the time of the assignment.
AssignedStory_NoTimestamp(story, agent_id, now) ==
    LET s1 == Put(story, "status", "in_progress")
    IN  IF Truthy(agent_id) THEN Put(s1, "assigned_to", agent_id) ELSE s1

\* The story after the assignment.
AssignedStory(story, agent_id, now) ==
    LET s1 == Put(story, "status", "in_progress")
    IN  IF Truthy(agent_id)
        THEN Put(Put(s1, "assigned_to", agent_id), "assigned_at", now)
        ELSE s1

\* Mutant: the status is written before the checks, so a refused call leaves
\* the story in_progress.
Refused_AfterWrite(d, story_id, msg) ==
    LET i == get_story_by_id(d, story_id)
    IN  [ok |-> FALSE, message |-> msg,
         data |-> IF i = 0 THEN d
                  ELSE [d EXCEPT !["stories"][i] = Put(d["stories"][i], "status", "in_progress")]]

\* return False, message: the ledger is as the call found it.
Refused(d, story_id, msg) == [ok |-> FALSE, message |-> msg, data |-> d]

\* Mutant: the status is compared with a misspelt word.
AlreadyInProgress_Misspelt(current_status) == current_status = "in-progress"

\* if current_status == 'in_progress'
AlreadyInProgress(current_status) == current_status = "in_progress"

\* Mutant: a blocked story is refused like a done one.
AlreadyDone_OrBlocked(current_status) == current_status \in {"done", "blocked"}

\* if current_status == 'done'
AlreadyDone(current_status) == current_status = "done"

\* assign_story(data, story_id, agent_id): the returned (success, message) and
\* the ledger as the call leaves it.  `now` is datetime.now().isoformat().
assign_story(d, story_id, agent_id, now) ==
    LET i == get_story_by_id(d, story_id)
        story == d["stories"][i]
        current_status == Get(story, "status", None)
        count == current_in_progress(d)
        limit == max_agents_total(d)
        prefix == story_epic_prefix(story_id)
        allowed == epic_agents_allowed(d, active_epic_id(d))
        epic_count == epic_in_progress(d, prefix)
    IN  IF i = 0 THEN
            Refused(d, story_id, [text |-> "not found", story |-> story_id])
        ELSE IF AlreadyInProgress(current_status) THEN
            Refused(d, story_id, [text |-> "is already in_progress", story |-> story_id])
        ELSE IF AlreadyDone(current_status) THEN
            Refused(d, story_id, [text |-> "is already done", story |-> story_id])
        ELSE IF GlobalLimitReached(count, limit) THEN
            Refused(d, story_id, [text |-> "global concurrency limit reached",
                                  count |-> count, limit |-> limit])
        ELSE IF ChecksEpicLimit(d, story_id) /\ EpicLimitReached(epic_count, allowed) THEN
            Refused(d, story_id, [text |-> "EPIC concurrency limit reached",
                                  epic |-> active_epic_id(d),
                                  count |-> epic_count, limit |-> allowed])
        ELSE
            [ok |-> TRUE,
             message |-> [text |-> "Assigned story", story |-> story_id,
                          to |-> IF Truthy(agent_id) THEN agent_id ELSE "agent"],
             data |-> [d EXCEPT !["stories"][i] = AssignedStory(story, agent_id, now)]]

--------------------------------------------------------------------------
(* validate_work_index *)

required_fields ==
    <<"version", "product_version", "concurrency", "active_epic", "epics", "stories">>

valid_statuses == {"ready", "blocked", "in_progress", "done"}

\* Mutant: a result with warnings is not valid.
ValidationResult_WarningsCount(errors, warnings) ==
    [is_valid |-> errors = <<>> /\ warnings = <<>>, errors |-> errors, warnings |-> warnings]

\* ValidationResult(len(errors) == 0, errors, warnings)
ValidationResult(errors, warnings) ==
    [is_valid |-> errors = <<>>, errors |-> errors, warnings |-> warnings]

\* Mutant: the loop over required_fields stops at the first missing field.
MissingFieldErrors_FirstOnly(d) ==
    LET Missing(f) == f \notin DOMAIN d
        fields == SelectSeq(required_fields, Missing)
    IN  IF fields = <<>> THEN <<>>
        ELSE <<[text |-> "Missing required field", field |-> fields[1]]>>

\* The "Missing required field" errors, in the order of required_fields.
MissingFieldErrors(d) ==
    LET Missing(f) == f \notin DOMAIN d
        fields == SelectSeq(required_fields, Missing)
    IN  [i \in DOMAIN fields |-> [text |-> "Missing required field", field |-> fields[i]]]

\* if max_agents <= 0
MaxAgentsError(d) ==
    IF max_agents_total(d) <= 0
    THEN <<[text |-> "max_agents_total must be > 0"]>>
    ELSE <<>>

\* epic_ids = [epic.get('id') for epic in data.get('epics', [])]
epic_ids(d) ==
    LET epics == Get(d, "epics", <<>>)
    IN  {Get(epics[i], "id", NoneId) : i \in DOMAIN epics}

\* if active_epic_id and active_epic_id not in epic_ids
ActiveEpicError(d) ==
    IF TruthyId(active_epic_id(d)) /\ active_epic_id(d) \notin epic_ids(d)
    THEN <<[text |-> "Active EPIC not found in epics list", epic |-> active_epic_id(d)]>>
    ELSE <<>>

\* Mutant: story_ids.add is missing.
SeenIds_NeverAdded(stories, i) == {}

\* story_ids when the loop reaches story i: the ids of the earlier stories that
\* have one.
SeenIds(stories, i) ==
    {Get(stories[j], "id", NoneId) : j \in {k \in 1..(i - 1) : TruthyId(Get(stories[k], "id", NoneId))}}

\* One iteration of the loop over the stories: its errors and its warnings.
StoryErrors(stories, i) ==
    LET story == stories[i]
        story_id == Get(story, "id", NoneId)
        status == Get(story, "status", None)
        dup == IF story_id \in SeenIds(stories, i)
               THEN <<[text |-> "Duplicate story ID", story |-> story_id]>>
               ELSE <<>>
        st == IF ~Truthy(status)
              THEN <<[text |-> "Story missing 'status' field", story |-> story_id]>>
              ELSE IF status \notin valid_statuses
              THEN <<[text |-> "Story has invalid status", story |-> story_id,
                      status |-> status]>>
              ELSE <<>>
    IN  IF ~TruthyId(story_id)
        THEN <<[text |-> "Story missing required 'id' field"]>>
        ELSE dup \o st

StoryWarnings(stories, i) ==
    LET story == stories[i]
        story_id == Get(story, "id", NoneId)
    IN  IF TruthyId(story_id) /\ Get(story, "acceptance_criteria", <<>>) = <<>>
        THEN <<[text |-> "Story has no acceptance criteria", story |-> story_id]>>
        ELSE <<>>

\* The errors (warnings) of the loop over stories 1..n, in order.
RECURSIVE AllStoryErrors(_, _)
AllStoryErrors(stories, n) ==
    IF n = 0 THEN <<>>
    ELSE AllStoryErrors(stories, n - 1) \o StoryErrors(stories, n)

RECURSIVE AllStoryWarnings(_, _)
AllStoryWarnings(stories, n) ==
    IF n = 0 THEN <<>>
    ELSE AllStoryWarnings(stories, n - 1) \o StoryWarnings(stories, n)

\* in_progress_count of the per-EPIC check: every in_progress story is counted.
in_progress_count(d) == CountIf(Get(d, "stories", <<>>), IsInProgress)

\* if active_epic_id: ... if in_progress_count > epic_agents_allowed
EpicLimitError(d) ==
    LET allowed == epic_agents_allowed(d, active_epic_id(d))
    IN  IF TruthyId(active_epic_id(d)) /\ in_progress_count(d) > allowed
        THEN <<[text |-> "Too many in_progress stories", count |-> in_progress_count(d),
                epic |-> active_epic_id(d), allowed |-> allowed]>>
        ELSE <<>>

\* Mutant: the global limit may be exceeded by one.
GlobalLimitError_AllowsOneMore(d) ==
    IF current_in_progress(d) > max_agents_total(d) + 1
    THEN <<[text |-> "Global concurrency limit exceeded",
            count |-> current_in_progress(d), max |-> max_agents_total(d)]>>
    ELSE <<>>

\* if total_in_progress > max_agents
GlobalLimitError(d) ==
    IF current_in_progress(d) > max_agents_total(d)
    THEN <<[text |-> "Global concurrency limit exceeded",
            count |-> current_in_progress(d), max |-> max_agents_total(d)]>>
    ELSE <<>>

\* if version_current and not version_current.startswith('v')
VersionWarning(d) ==
    LET version_current == Get(Get(d, "product_version", EmptyDict), "current", <<>>)
    IN  IF version_current # <<>> /\ version_current[1] # "v"
        THEN <<[text |-> "Product version should start with 'v'",
                version |-> version_current]>>
        ELSE <<>>

validate_work_index(d) ==
    LET stories == Get(d, "stories", <<>>)
    IN  IF MissingFieldErrors(d) # <<>>
        THEN ValidationResult(MissingFieldErrors(d), <<>>)
        ELSE ValidationResult(
                MaxAgentsError(d) \o ActiveEpicError(d)
                    \o AllStoryErrors(stories, Len(stories))
                    \o EpicLimitError(d) \o GlobalLimitError(d),
                AllStoryWarnings(stories, Len(stories)) \o VersionWarning(d))

--------------------------------------------------------------------------
(* check_story_conflicts *)

\* A diff is the text git prints, cut into the pieces the pattern
\* [-+]\s+status:\s+"(\w+)" tells apart: the signs "+" and "-", a run of
\* blanks " ", the line end, the key "status:", a word in double quotes, and
\* anything else (an unquoted word, another key).
WhiteSpace == {" ", "\n"}

\* The words in double quotes and what the group (\w+) captures of them.
QuotedWord ==
    [q \in {"\"in_progress\"", "\"ready\"", "\"done\""} |->
        CASE q = "\"in_progress\"" -> "in_progress"
          [] q = "\"ready\"" -> "ready"
          [] OTHER -> "done"]

\* The first position from i on that holds no white space.
RECURSIVE SkipWhiteSpace(_, _)
SkipWhiteSpace(text, i) ==
    IF i <= Len(text) /\ text[i] \in WhiteSpace
    THEN SkipWhiteSpace(text, i + 1)
    ELSE i

\* Where a match of the pattern that starts at i ends, 0 when none starts there.
MatchEnd(text, i) ==
    LET key == SkipWhiteSpace(text, i + 1)
        word == SkipWhiteSpace(text, key + 1)
    IN  IF /\ text[i] \in {"+", "-"}
           /\ key > i + 1 /\ key <= Len(text) /\ text[key] = "status:"
           /\ word > key + 1 /\ word <= Len(text) /\ text[word] \in DOMAIN QuotedWord
        THEN word
        ELSE 0

\* re.findall(pattern, diff) from position i on: the captured words of the
\* matches, left to right, each search starting where the last match ended.
RECURSIVE FindAll(_, _)
FindAll(text, i) ==
    IF i > Len(text) THEN <<>>
    ELSE IF MatchEnd(text, i) # 0
    THEN <<QuotedWord[text[MatchEnd(text, i)]]>> \o FindAll(text, MatchEnd(text, i) + 1)
    ELSE FindAll(text, i + 1)

status_changes(diff) == FindAll(diff, 1)

\* in_progress_changes = [s for s in status_changes if s == 'in_progress']
in_progress_changes(diff) ==
    LET IsInProgressWord(s) == s = "in_progress"
    IN  SelectSeq(status_changes(diff), IsInProgressWord)

\* The warning of the heuristic, or nothing.
HeuristicWarnings(diff) ==
    IF Len(status_changes(diff)) >= 2 /\ Len(in_progress_changes(diff)) > 1
    THEN <<[text |-> "Multiple stories being set to 'in_progress'",
            count |-> Len(in_progress_changes(diff))]>>
    ELSE <<>>

\* str(WORK_INDEX_YAML.relative_to(REPO_ROOT))
work_index_path == "product-development/agentic_work_index.yaml"

\* Mutant: the list of changed files is not looked at.
LedgerChanged_Always(changed_files) == TRUE

\* work_index_path in changed_files
LedgerChanged(changed_files) ==
    \E i \in DOMAIN changed_files : changed_files[i] = work_index_path

\* Mutant: the warning of the heuristic is filed as an error.
MergeFindings_HeuristicIsError(heuristic, validation) ==
    ValidationResult(heuristic \o validation.errors, validation.warnings)

\* errors.extend(validation.errors); warnings.extend(validation.warnings);
\* return ValidationResult(len(errors) == 0, errors, warnings)
MergeFindings(heuristic, validation) ==
    ValidationResult(validation.errors, heuristic \o validation.warnings)

\* The diff the function works on: the staged one, the unstaged one when the
\* staged one is empty.
WorkingDiff(staged, unstaged) == IF staged # <<>> THEN staged ELSE unstaged

\* check_story_conflicts(data, changed_files), with what get_git_diff returns
\* for staged=True and staged=False.
check_story_conflicts(d, changed_files, staged, unstaged) ==
    IF ~LedgerChanged(changed_files)
    THEN ValidationResult(<<>>, <<>>)
    ELSE MergeFindings(HeuristicWarnings(WorkingDiff(staged, unstaged)),
                       validate_work_index(d))

--------------------------------------------------------------------------
(* The ledgers and the arguments the model runs the program on *)

\* max_agents_total ranges over 0..MaxAgentsTotal in the capacity ledgers.
MaxAgentsTotal == 2

\* agents_allowed of EPIC-1 ranges over 0..MaxAgentsAllowed in the capacity ledgers.
MaxAgentsAllowed == 2

E1S1 == <<"E", "1", "-", "S", "1">>
E1S2 == <<"E", "1", "-", "S", "2">>
E1S3 == <<"E", "1", "-", "S", "3">>
E2S1 == <<"E", "2", "-", "S", "1">>
E2S2 == <<"E", "2", "-", "S", "2">>
E1NoDash == <<"E", "1">>
X1S1 == <<"X", "1", "-", "S", "1">>
E1S99 == <<"E", "1", "-", "S", "9", "9">>
EPIC1 == <<"E", "P", "I", "C", "-", "1">>
EPIC2 == <<"E", "P", "I", "C", "-", "2">>
EPIC9 == <<"E", "P", "I", "C", "-", "9">>

Story(id, status) ==
    [id |-> id, status |-> status, acceptance_criteria |-> <<"criterion">>]

Epics(allowed1, allowed2) ==
    <<[id |-> EPIC1, agents_allowed |-> allowed1],
      [id |-> EPIC2, agents_allowed |-> allowed2]>>

Ledger(concurrency, active_epic, epics, stories) ==
    [version |-> 1,
     product_version |-> [current |-> <<"v", "0">>],
     concurrency |-> concurrency,
     active_epic |-> active_epic,
     epics |-> epics,
     stories |-> stories]

\* The ledger of the tests' fixture valid_work_index_data, as the end-to-end
\* scenario uses it.
ScenarioLedger ==
    Ledger([max_agents_total |-> 4], [id |-> EPIC1, agents_allowed |-> 2], Epics(2, 1),
           <<Story(E1S1, "ready"), Story(E1S2, "ready"), Story(E1S3, "ready")>>)

IdLayouts ==
    {<<E1S1, E1S2, E2S1>>, <<E1S1, E1S2, E1S3>>, <<E1S1, E2S1, E2S2>>}

\* Well-formed ledgers around the capacity limits.
CapacityLedgers ==
    {Ledger(c, a, Epics(a1, 1), [i \in 1..3 |-> Story(ids[i], st[i])]) :
        c \in {EmptyDict} \cup {[max_agents_total |-> m] : m \in 0..MaxAgentsTotal},
        a \in {EmptyDict, [id |-> EPIC1], [id |-> EPIC2]},
        a1 \in 0..MaxAgentsAllowed,
        ids \in IdLayouts,
        st \in [1..3 -> {"ready", "in_progress"}]}

\* Stories as a hand-edited file can hold them: no id, an empty id, an id
\* without '-', a prefix that names no epic, no status, an unknown status, no
\* acceptance criteria.
OddStories ==
    {Story(id, st) : id \in {E1S1, E1NoDash, X1S1, <<>>},
                     st \in {"ready", "blocked", "in_progress", "done", "bogus", ""}}
    \cup {[id |-> E1S1, acceptance_criteria |-> <<>>],
          [id |-> X1S1, acceptance_criteria |-> <<"criterion">>],
          [status |-> "ready"], [status |-> "in_progress"],
          [id |-> E1S2, status |-> "in_progress"]}

\* Ledgers with malformed parts.
OddLedgers ==
    {Ledger(c, a, e, <<s1, s2>>) :
        c \in {[max_agents_total |-> 0 - 1], [max_agents_total |-> 2]},
        a \in {[id |-> EPIC1], [id |-> EPIC9], [id |-> <<>>]},
        e \in {Epics(1, 1), Epics(0 - 1, 1),
               <<[id |-> EPIC1], [id |-> EPIC1, agents_allowed |-> 2]>>},
        s1 \in {Story(E1S1, "ready"), Story(E1S1, "in_progress")},
        s2 \in OddStories}

\* del d[k] for every k in keys
Without(d, keys) == [k \in (DOMAIN d) \ keys |-> d[k]]

\* The fixture with a second story that shares the id of the first.
DuplicateIdLedger ==
    [ScenarioLedger EXCEPT !["stories"] =
        <<Story(E1S1, "ready"), Story(E1S1, "ready"), Story(E1S3, "in_progress")>>]

\* Ledgers whose only findings are warnings: stories without acceptance
\* criteria, a product version that does not start with 'v', or both.
WarningLedgers ==
    {[ScenarioLedger EXCEPT
          !["product_version"] = [current |-> version],
          !["stories"] = [i \in 1..3 |->
                             IF i \in bare
                             THEN [@[i] EXCEPT !["acceptance_criteria"] = <<>>]
                             ELSE @[i]]] :
        version \in {<<"v", "0">>, <<"0", "1">>},
        bare \in {{}, {2}, {1, 3}}}

\* A ledger with every kind of finding: max_agents_total of 0, an active epic
\* that is not listed, a story without id, a shared id, an unknown status,
\* limits exceeded, no acceptance criteria, a version without 'v'.
EverythingWrongLedger ==
    [version |-> 1,
     product_version |-> [current |-> <<"0", "1">>],
     concurrency |-> [max_agents_total |-> 0],
     active_epic |-> [id |-> EPIC9],
     epics |-> Epics(1, 1),
     stories |-> <<[id |-> E1S1, status |-> "in_progress", acceptance_criteria |-> <<>>],
                   [id |-> E1S1, status |-> "bogus", acceptance_criteria |-> <<>>],
                   [status |-> "in_progress"]>>]

\* Ledgers that lack required top-level fields.
MissingFieldLedgers ==
    {Without(d, keys) :
        d \in {ScenarioLedger, DuplicateIdLedger, EverythingWrongLedger},
        keys \in {{f} : f \in {required_fields[i] : i \in DOMAIN required_fields}}
                 \cup {{"version", "stories"}, {"concurrency", "active_epic", "epics"}}}

\* The fixture with two stories whose id is the empty string.
EmptyIdsLedger ==
    [ScenarioLedger EXCEPT !["stories"] =
        <<Story(<<>>, "ready"), Story(<<>>, "ready"), Story(E1S3, "ready")>>]

Ledgers ==
    CapacityLedgers \cup OddLedgers \cup MissingFieldLedgers
        \cup WarningLedgers
        \cup {ScenarioLedger, DuplicateIdLedger, EmptyIdsLedger, EverythingWrongLedger}

\* The story ids the calls on ledger d are made with: the ids of its stories,
\* and E1S99, which is the id of no story.
StoryIdArgs(d) ==
    LET stories == Get(d, "stories", <<>>)
    IN  {stories[i]["id"] : i \in {j \in DOMAIN stories : "id" \in DOMAIN stories[j]}}
            \cup {E1S99}

\* The agent ids the calls are made with: none, the empty string, and names.
AgentIdArgs == {None, "", "a", "b"}

\* The agent ids of the end-to-end scenario.
ScenarioAgentIds == {"a", "b", "c"}

\* What datetime.now().isoformat() returns; the program never reads it back.
Timestamps == {"2024-01-01T00:00:00"}

\* A diff has at most MaxDiffLines lines.
MaxDiffLines == 3

\* The lines of a diff of the ledger file: a status line added, removed or
\* left as context, an added empty line, an added status line as yaml.dump
\* writes it (the word without quotes), an added line of another key.
DiffLine(sign, key, word) == sign \o <<" ", key, " ", word, "\n">>

DiffLines ==
    {DiffLine(<<"+">>, "status:", "\"in_progress\""),
     DiffLine(<<"-">>, "status:", "\"in_progress\""),
     DiffLine(<<"+">>, "status:", "\"done\""),
     DiffLine(<<>>, "status:", "\"in_progress\""),
     DiffLine(<<"+">>, "status:", "in_progress"),
     <<"+", "\n">>}

RECURSIVE JoinLines(_)
JoinLines(lines) ==
    IF lines = <<>> THEN <<>> ELSE Head(lines) \o JoinLines(Tail(lines))

\* What get_git_diff(staged=True) returns: "" or up to MaxDiffLines lines.
Diffs ==
    UNION {{JoinLines(lines) : lines \in [1..n -> DiffLines]} : n \in 0..MaxDiffLines}

\* What get_git_diff(staged=False) returns.
UnstagedDiffs ==
    {<<>>, JoinLines(<<DiffLine(<<"+">>, "status:", "\"in_progress\""),
                       DiffLine(<<"+">>, "status:", "\"in_progress\"")>>)}

\* The lists of changed files the command check-conflicts is given.
ChangedFilesArgs ==
    {<<>>, <<"other_file.py">>, <<"other_file.py", work_index_path>>}

\* The ledgers check_story_conflicts is called on: accepted ones, with and
\* without warnings, and rejected ones.
ConflictLedgers ==
    WarningLedgers
        \cup {ScenarioLedger, DuplicateIdLedger, EmptyIdsLedger, EverythingWrongLedger,
              Without(ScenarioLedger, {"concurrency"})}

--------------------------------------------------------------------------
(* The state machine *)

NoResult == [op |-> "none"]

\* The agents that run main side by side, each with its own agent id.
Agents == {"a", "b"}

\* A run of main that has not loaded the ledger yet.
NotStarted == [pc |-> "start", data |-> EmptyDict, story_id |-> NoneId, ok |-> FALSE]

Init ==
    /\ data \in Ledgers
    /\ disk = data
    /\ result = NoResult
    /\ assigned = {}
    /\ local = [a \in Agents |-> NotStarted]

\* A caller holding the ledger in memory calls assign_story(data, story_id, agent_id).
AssignStory(story_id, agent_id, now) ==
    LET r == assign_story(data, story_id, agent_id, now)
    IN  /\ data' = r.data
        /\ result' = [op |-> "assign", story_id |-> story_id, agent_id |-> agent_id,
                       ok |-> r.ok, message |-> r.message]
        /\ assigned' = IF r.ok THEN assigned \cup {story_id} ELSE assigned
        /\ UNCHANGED <<disk, local>>

\* load_work_index(): yaml.safe_load of the file.  The file holds what
\* yaml.dump wrote: dicts, lists, integers and strings, which load back equal.
load_work_index == disk

\* Mutant: nothing is written, the file stays as it was.
save_work_index_WritesNothing(d) == disk

\* save_work_index(data): the whole file is overwritten.
save_work_index(d) == d

\* main, command `assign <story-id> [agent-id]`: load, assign_story, and
\* save only on success.
MainAssign(story_id, agent_id, now) ==
    LET r == assign_story(load_work_index, story_id, agent_id, now)
    IN  /\ data' = r.data
        /\ disk' = IF r.ok THEN save_work_index(r.data) ELSE disk
        /\ result' = [op |-> "assign", story_id |-> story_id, agent_id |-> agent_id,
                       ok |-> r.ok, message |-> r.message]
        /\ assigned' = IF r.ok THEN assigned \cup {story_id} ELSE assigned
        /\ UNCHANGED local

\* A caller holding the ledger in memory calls validate_work_index(data).
Validate ==
    LET v == validate_work_index(data)
    IN  /\ result' = [op |-> "validate", is_valid |-> v.is_valid,
                       errors |-> v.errors, warnings |-> v.warnings]
        /\ UNCHANGED <<data, disk, assigned, local>>

AssignCalls(agent_ids) ==
    \E story_id \in StoryIdArgs(data), agent_id \in agent_ids, now \in Timestamps :
        AssignStory(story_id, agent_id, now)

MainAssignCalls ==
    \E story_id \in StoryIdArgs(disk), agent_id \in AgentIdArgs, now \in Timestamps :
        MainAssign(story_id, agent_id, now)

\* Calls of the core on a ledger held in memory.
Next == AssignCalls(AgentIdArgs) \/ Validate

Spec == Init /\ [][Next]_vars

\* The same calls on a ledger that respects the global cap to begin with.
InitCapped == Init /\ current_in_progress(data) <= max_agents_total(data)

SpecCapped == InitCapped /\ [][Next]_vars

\* The same calls on a ledger with no story in progress and no negative
\* allowance.
InitFresh ==
    /\ Init
    /\ current_in_progress(data) = 0
    /\ \A i \in DOMAIN Get(data, "epics", <<>>) :
            Get(data["epics"][i], "agents_allowed", 0) >= 0

SpecFresh == InitFresh /\ [][Next]_vars

\* main, command `check-conflicts <files...>`: load the stored ledger and call
\* check_story_conflicts on it.  The process runs its one command and exits.
MainCheckConflicts(changed_files, staged, unstaged) ==
    LET r == check_story_conflicts(load_work_index, changed_files, staged, unstaged)
    IN  /\ result = NoResult
        /\ data' = load_work_index
        /\ result' = [op |-> "check_conflicts", changed_files |-> changed_files,
                       diff |-> WorkingDiff(staged, unstaged),
                       is_valid |-> r.is_valid, errors |-> r.errors,
                       warnings |-> r.warnings]
        /\ UNCHANGED <<disk, assigned, local>>

\* get_git_diff(staged=False) is only called when the staged diff is empty.
NextConflicts ==
    \E changed_files \in ChangedFilesArgs, staged \in Diffs :
        \E unstaged \in IF staged = <<>> THEN UnstagedDiffs ELSE {<<>>} :
            MainCheckConflicts(changed_files, staged, unstaged)

InitConflicts == Init /\ disk \in ConflictLedgers

SpecConflicts == InitConflicts /\ [][NextConflicts]_vars

--------------------------------------------------------------------------
(* Two agents that run main side by side on their own checkouts *)

\* Agent a runs load_work_index() and holds the stored ledger.
AgentLoad(a) ==
    /\ local[a].pc = "start"
    /\ local' = [local EXCEPT ![a] = [pc |-> "loaded", data |-> load_work_index,
                                       story_id |-> NoneId, ok |-> FALSE]]
    /\ UNCHANGED <<data, disk, result, assigned>>

\* Agent a runs assign_story(data, story_id, a) on the ledger it loaded.
AgentAssign(a, story_id, now) ==
    /\ local[a].pc = "loaded"
    /\ LET r == assign_story(local[a].data, story_id, a, now)
       IN  /\ local' = [local EXCEPT ![a] = [pc |-> "assigned", data |-> r.data,
                                              story_id |-> story_id, ok |-> r.ok]]
           /\ result' = [op |-> "assign", story_id |-> story_id, agent_id |-> a,
                          ok |-> r.ok, message |-> r.message]
           /\ assigned' = IF r.ok THEN assigned \cup {story_id} ELSE assigned
    /\ UNCHANGED <<data, disk>>

\* The ledger that holds the changes of both checkouts: every story as the
\* checkout that changed it has it, the rest as the common ancestor has it.
MergedLedger(base, mine, theirs) ==
    [base EXCEPT !["stories"] =
        [i \in DOMAIN base["stories"] |->
            IF mine["stories"][i] # base["stories"][i]
            THEN mine["stories"][i]
            ELSE theirs["stories"][i]]]

\* Both agents were told their assignment succeeded, for different stories,
\* and both changes are committed as one ledger.
MergeCommit ==
    /\ \A a \in Agents : local[a].pc = "assigned" /\ local[a].ok
    /\ local["a"].story_id # local["b"].story_id
    /\ disk' = MergedLedger(disk, local["a"].data, local["b"].data)
    /\ local' = [a \in Agents |-> [local[a] EXCEPT !.pc = "committed"]]
    /\ result' = [op |-> "merge"]
    /\ UNCHANGED <<data, assigned>>

\* main, command `validate`: load the stored ledger and validate it.
MainValidate ==
    LET v == validate_work_index(load_work_index)
    IN  /\ result' = [op |-> "main_validate", is_valid |-> v.is_valid,
                       errors |-> v.errors, warnings |-> v.warnings]
        /\ UNCHANGED <<data, disk, assigned, local>>

NextMerge ==
    \/ \E a \in Agents : AgentLoad(a)
    \/ \E a \in Agents, story_id \in StoryIdArgs(disk), now \in Timestamps :
           AgentAssign(a, story_id, now)
    \/ MergeCommit
    \/ MainValidate

\* The agents start from a stored ledger that validate_work_index accepts.
InitMerge == Init /\ validate_work_index(disk).is_valid

SpecMerge == InitMerge /\ [][NextMerge]_vars

--------------------------------------------------------------------------
(* Agents whose runs of `assign` interleave on one stored ledger *)

\* Agent a's assign_story returned True: main calls save_work_index(data),
\* which overwrites the file with the ledger a holds, and the process ends.
AgentSave(a) ==
    /\ local[a].pc = "assigned" /\ local[a].ok
    /\ disk' = save_work_index(local[a].data)
    /\ local' = [local EXCEPT ![a] = NotStarted]
    /\ UNCHANGED <<data, result, assigned>>

\* Agent a's assign_story returned False: main logs the message and exits
\* without saving.
AgentExit(a) ==
    /\ local[a].pc = "assigned" /\ ~local[a].ok
    /\ local' = [local EXCEPT ![a] = NotStarted]
    /\ UNCHANGED <<data, disk, result, assigned>>

NextInterleaved ==
    \/ \E a \in Agents : AgentLoad(a)
    \/ \E a \in Agents :
           \E story_id \in StoryIdArgs(local[a].data), now \in Timestamps :
               AgentAssign(a, story_id, now)
    \/ \E a \in Agents : AgentSave(a)
    \/ \E a \in Agents : AgentExit(a)

\* The ledgers the interleaved runs start from.
InterleavedLedgers ==
    {d \in CapacityLedgers : d["stories"][2]["id"] = E1S2 /\ d["stories"][3]["id"] = E2S1}
        \cup {ScenarioLedger}

\* The stored ledger respects the global cap to begin with.
InitInterleaved ==
    /\ Init
    /\ disk \in InterleavedLedgers
    /\ current_in_progress(disk) <= max_agents_total(disk)

SpecInterleaved == InitInterleaved /\ [][NextInterleaved]_vars

--------------------------------------------------------------------------
(* What the claims speak of, stated on the ledger alone *)

StoriesOf(d) == IF "stories" \in DOMAIN d THEN d["stories"] ELSE <<>>

\* The positions of the stories whose status is in_progress.
InProgressStories(d) ==
    {i \in DOMAIN StoriesOf(d) :
        /\ "status" \in DOMAIN StoriesOf(d)[i]
        /\ StoriesOf(d)[i]["status"] = "in_progress"}

\* id has the form E<n>-... and EPIC-<n> is epic.
MapsToEpic(id, epic) ==
    \E k \in 2..Len(id) :
        /\ id[k] = "-"
        /\ \A j \in 1..(k - 1) : id[j] # "-"
        /\ id[1] = "E"
        /\ epic = <<"E", "P", "I", "C", "-">> \o SubSeq(id, 2, k - 1)

\* The in_progress stories whose id prefix maps to epic.
EpicStoriesInProgress(d, epic) ==
    {i \in InProgressStories(d) :
        /\ "id" \in DOMAIN StoriesOf(d)[i]
        /\ MapsToEpic(StoriesOf(d)[i]["id"], epic)}

\* The ledger names an active epic.
HasActiveEpic(d) ==
    /\ "active_epic" \in DOMAIN d
    /\ "id" \in DOMAIN d["active_epic"]
    /\ d["active_epic"]["id"] # <<>>

\* The position of the first story whose id is id, 0 when there is none.
FirstWithId(d, id) ==
    LET hits == {i \in DOMAIN StoriesOf(d) :
                    "id" \in DOMAIN StoriesOf(d)[i] /\ StoriesOf(d)[i]["id"] = id}
    IN  IF hits = {} THEN 0 ELSE CHOOSE i \in hits : \A j \in hits : i <= j

\* The story with this id exists and is neither in_progress nor done.
Assignable(d, id) ==
    /\ FirstWithId(d, id) # 0
    /\ LET story == StoriesOf(d)[FirstWithId(d, id)]
       IN  "status" \in DOMAIN story => story["status"] \notin {"in_progress", "done"}

\* The part of an id before its first '-', the whole id when it has none.
IdPrefix(id) ==
    IF \E k \in 1..Len(id) : id[k] = "-"
    THEN SubSeq(id, 1, (CHOOSE k \in 1..Len(id) :
                            id[k] = "-" /\ \A j \in 1..(k - 1) : id[j] # "-") - 1)
    ELSE id

\* The in_progress stories whose id has the prefix of id.
SamePrefixInProgress(d, id) ==
    {i \in InProgressStories(d) :
        /\ "id" \in DOMAIN StoriesOf(d)[i]
        /\ IdPrefix(StoriesOf(d)[i]["id"]) = IdPrefix(id)}

\* Invariant 4 with the prefix-restricted count.
ActiveEpicCapHolds(d) ==
    HasActiveEpic(d) =>
        Cardinality(EpicStoriesInProgress(d, d["active_epic"]["id"]))
            <= epic_agents_allowed(d, d["active_epic"]["id"])

\* The same calls on a ledger that respects the active epic's allowance to
\* begin with.
InitEpicCapped == Init /\ ActiveEpicCapHolds(data)

SpecEpicCapped == InitEpicCapped /\ [][Next]_vars

\* The end-to-end scenario's ledger and agents.
InitScenario == Init /\ data = ScenarioLedger

NextScenario == AssignCalls(ScenarioAgentIds) \/ Validate

SpecScenario == InitScenario /\ [][NextScenario]_vars

\* Runs of the command line `assign` on the stored ledger.
NextMain == MainAssignCalls

SpecMain == Init /\ [][NextMain]_vars

--------------------------------------------------------------------------
(* Claims *)

\* C1 (SpecCapped): from a ledger whose in_progress count is at most
\* max_agents_total, after any sequence of assign calls the in_progress count
\* is still at most max_agents_total.
C1_GlobalCap ==
    Cardinality(InProgressStories(data)) <= max_agents_total(data)

\* C1 witness: a call has just succeeded and filled the last free slot.
C1_Witness ==
    /\ result.op = "assign" /\ result.ok
    /\ Cardinality(InProgressStories(data)) = max_agents_total(data)
    /\ Cardinality(assigned) >= 2

\* The epics are as the data model has them: each with an id and a
\* non-negative agents_allowed, no id twice, and the active epic among them.
EpicsWellFormed(d) ==
    /\ "epics" \in DOMAIN d
    /\ \A i \in DOMAIN d["epics"] :
           /\ {"id", "agents_allowed"} \subseteq DOMAIN d["epics"][i]
           /\ d["epics"][i]["agents_allowed"] >= 0
           /\ \A j \in DOMAIN d["epics"] :
                  d["epics"][i]["id"] = d["epics"][j]["id"] => i = j
    /\ HasActiveEpic(d)
    /\ \E i \in DOMAIN d["epics"] : d["epics"][i]["id"] = d["active_epic"]["id"]

\* C2 as stated (SpecFresh): from a ledger with nothing in progress, for
\* every epic of the epics list the in_progress stories whose prefix maps to
\* it never outnumber its agents_allowed.
C2_EveryEpicCapped ==
    EpicsWellFormed(data) =>
        \A i \in DOMAIN data["epics"] :
            Cardinality(EpicStoriesInProgress(data, data["epics"][i]["id"]))
                <= data["epics"][i]["agents_allowed"]

\* C2 amended (SpecFresh): the allowance bounds the in_progress stories of
\* the active epic only; the stories of any other epic are bounded by
\* max_agents_total alone.
C2_ActiveEpicCapped ==
    \A i \in DOMAIN Get(data, "epics", <<>>) :
        LET epic == data["epics"][i]
            n == IF "id" \in DOMAIN epic
                 THEN Cardinality(EpicStoriesInProgress(data, epic["id"]))
                 ELSE 0
        IN  /\ (HasActiveEpic(data) /\ "id" \in DOMAIN epic
                    /\ epic["id"] = data["active_epic"]["id"])
                => n <= epic_agents_allowed(data, epic["id"])
            /\ n = 0 \/ n <= max_agents_total(data)

\* C2 witness: the active epic is full after a successful call, and another
\* epic holds more stories in progress than its own allowance.
C2_Witness ==
    /\ result.op = "assign" /\ result.ok
    /\ HasActiveEpic(data)
    /\ Cardinality(EpicStoriesInProgress(data, data["active_epic"]["id"]))
           = epic_agents_allowed(data, data["active_epic"]["id"])
    /\ \E i \in DOMAIN data["epics"] :
           /\ "id" \in DOMAIN data["epics"][i]
           /\ data["epics"][i]["id"] # data["active_epic"]["id"]
           /\ Cardinality(EpicStoriesInProgress(data, data["epics"][i]["id"]))
                  > Get(data["epics"][i], "agents_allowed", 0)

\* C3 (SpecEpicCapped): from a ledger in which the in_progress stories of the
\* active epic do not outnumber its agents_allowed, they never do after any
\* sequence of assign calls.
C3_ActiveEpicCap == ActiveEpicCapHolds(data)

\* C3 witness: a story of the active epic has just been assigned and the
\* epic is now full; it was not full of stories that were there from the start.
C3_Witness ==
    /\ result.op = "assign" /\ result.ok
    /\ HasActiveEpic(data)
    /\ MapsToEpic(result.story_id, data["active_epic"]["id"])
    /\ Cardinality(EpicStoriesInProgress(data, data["active_epic"]["id"]))
           = epic_agents_allowed(data, data["active_epic"]["id"])
    /\ Cardinality(assigned) >= 2

\* C4 (SpecMain): a refused assign leaves the ledger in memory equal to the
\* ledger that was loaded, and the stored ledger is not written.
C4_RefusalChangesNothing ==
    [][(result'.op = "assign" /\ ~result'.ok) => (data' = disk /\ disk' = disk)]_vars

\* C4 witness: each refusal has happened after an earlier call changed the
\* stored ledger.
C4_Witness ==
    /\ result.op = "assign" /\ ~result.ok
    /\ result.message.text = "EPIC concurrency limit reached"
    /\ assigned # {}
    /\ data = disk

\* Every story id has the form E<n>-... of an epic of the epics list.
StoryIdsConventional(d) ==
    \A i \in DOMAIN StoriesOf(d) :
        /\ "id" \in DOMAIN StoriesOf(d)[i]
        /\ \E e \in DOMAIN d["epics"] :
               MapsToEpic(StoriesOf(d)[i]["id"], d["epics"][e]["id"])

\* C5 as stated (Spec): when validate_work_index accepts the ledger and an
\* assign call succeeds, validate_work_index accepts the ledger the call
\* leaves.  It is stated for ledgers that follow the data model's conventions
\* for epics and story ids, where it fails already.
C5_ValidityPreserved ==
    [][(/\ EpicsWellFormed(data) /\ StoryIdsConventional(data)
        /\ validate_work_index(data).is_valid
        /\ result'.op = "assign" /\ result'.ok)
          => validate_work_index(data').is_valid]_vars

\* C6 (Spec): once assign has succeeded for a story id, every later assign
\* call with that id is refused with "already in_progress", whatever other
\* calls came in between.
C6_AdmissionMonotone ==
    [][(result'.op = "assign" /\ result'.story_id \in assigned)
          => /\ ~result'.ok
             /\ result'.message = [text |-> "is already in_progress",
                                    story |-> result'.story_id]]_vars

\* C6 witness: a story was assigned, then another one, then the first was
\* asked for again and refused.
C6_Witness ==
    /\ result.op = "assign" /\ ~result.ok
    /\ result.message.text = "is already in_progress"
    /\ result.story_id \in assigned
    /\ Cardinality(assigned) >= 2

\* C7 (Spec): for a story that exists and is neither in_progress nor done,
\* assign is refused with the global reason and count/max exactly when the
\* in_progress count has reached max_agents_total, also when the active
\* epic is full; below the cap the global reason is never given.
C7_GlobalBoundary ==
    [][(result'.op = "assign" /\ Assignable(data, result'.story_id))
          => LET n == Cardinality(InProgressStories(data))
                 m == max_agents_total(data)
             IN  /\ n >= m =>
                        /\ ~result'.ok
                        /\ result'.message =
                               [text |-> "global concurrency limit reached",
                                count |-> n, limit |-> m]
                 /\ n < m =>
                        result'.message.text # "global concurrency limit reached"]_vars

\* C7 witness: a story of the active epic was refused for the global reason
\* while the active epic was full as well, after an earlier assignment.
C7_Witness ==
    /\ result.op = "assign" /\ ~result.ok
    /\ result.message.text = "global concurrency limit reached"
    /\ result.message.count >= 1
    /\ HasActiveEpic(data)
    /\ MapsToEpic(result.story_id, data["active_epic"]["id"])
    /\ Cardinality(EpicStoriesInProgress(data, data["active_epic"]["id"]))
           >= epic_agents_allowed(data, data["active_epic"]["id"])
    /\ assigned # {}

\* C8 (Spec): with an active epic and the global cap not reached, assign on
\* an assignable story of the active epic is refused exactly when the
\* in_progress stories with its id prefix have reached the epic's
\* agents_allowed; on a story of another epic or of none it succeeds.
C8_EpicBoundary ==
    [][(/\ result'.op = "assign"
        /\ Assignable(data, result'.story_id)
        /\ HasActiveEpic(data)
        /\ Cardinality(InProgressStories(data)) < max_agents_total(data))
          => IF MapsToEpic(result'.story_id, data["active_epic"]["id"])
             THEN ~result'.ok <=>
                     Cardinality(SamePrefixInProgress(data, result'.story_id))
                        >= epic_agents_allowed(data, data["active_epic"]["id"])
             ELSE result'.ok]_vars

\* C8 witness: a story of EPIC-2 has just been assigned while the active
\* epic EPIC-1 was full.
C8_Witness ==
    /\ result.op = "assign" /\ result.ok
    /\ result.story_id = E2S1
    /\ HasActiveEpic(data) /\ data["active_epic"]["id"] = EPIC1
    /\ epic_agents_allowed(data, EPIC1) >= 1
    /\ Cardinality(EpicStoriesInProgress(data, EPIC1)) >= epic_agents_allowed(data, EPIC1)

\* The story with this id has this status, and this assignee when one is given.
ScenarioStory(d, id, status, agent_id) ==
    /\ FirstWithId(d, id) # 0
    /\ LET story == StoriesOf(d)[FirstWithId(d, id)]
       IN  /\ story["status"] = status
           /\ IF agent_id = None
              THEN "assigned_to" \notin DOMAIN story
              ELSE "assigned_to" \in DOMAIN story /\ story["assigned_to"] = agent_id

ScenarioAfterFirst(d) ==
    /\ ScenarioStory(d, E1S1, "in_progress", "a")
    /\ ScenarioStory(d, E1S2, "ready", None)
    /\ ScenarioStory(d, E1S3, "ready", None)

ScenarioAfterSecond(d) ==
    /\ ScenarioStory(d, E1S1, "in_progress", "a")
    /\ ScenarioStory(d, E1S2, "in_progress", "b")
    /\ ScenarioStory(d, E1S3, "ready", None)

ScenarioEpicRefusal ==
    [text |-> "EPIC concurrency limit reached", epic |-> EPIC1, count |-> 2, limit |-> 2]

\* C9 (SpecScenario): on the scenario ledger, assign(E1-S1, "a") succeeds,
\* then assign(E1-S2, "b") succeeds, then assign(E1-S3, "c") is refused with
\* the EPIC reason 2/2 and E1-S3 stays ready.
C9_Scenario ==
    [][/\ (data = ScenarioLedger /\ result'.op = "assign"
              /\ result'.story_id = E1S1 /\ result'.agent_id = "a")
          => (result'.ok /\ ScenarioAfterFirst(data'))
       /\ (ScenarioAfterFirst(data) /\ result'.op = "assign"
              /\ result'.story_id = E1S2 /\ result'.agent_id = "b")
          => (result'.ok /\ ScenarioAfterSecond(data'))
       /\ (ScenarioAfterSecond(data) /\ result'.op = "assign"
              /\ result'.story_id = E1S3 /\ result'.agent_id = "c")
          => (~result'.ok /\ result'.message = ScenarioEpicRefusal
                /\ ScenarioAfterSecond(data'))]_vars

\* C9 witness: the state the three calls end in.
C9_Witness ==
    /\ ScenarioAfterSecond(data)
    /\ assigned = {E1S1, E1S2}
    /\ result = [op |-> "assign", story_id |-> E1S3, agent_id |-> "c", ok |-> FALSE,
                  message |-> ScenarioEpicRefusal]

\* Invariants 1 to 6 of the data model.
LedgerInvariants(d) ==
    /\ \A i \in DOMAIN StoriesOf(d) :
           /\ "id" \in DOMAIN StoriesOf(d)[i] /\ StoriesOf(d)[i]["id"] # <<>>
           /\ \A j \in DOMAIN StoriesOf(d) :
                  ("id" \in DOMAIN StoriesOf(d)[j]
                      /\ StoriesOf(d)[j]["id"] = StoriesOf(d)[i]["id"]) => i = j
    /\ \A i \in DOMAIN StoriesOf(d) :
           /\ "status" \in DOMAIN StoriesOf(d)[i]
           /\ StoriesOf(d)[i]["status"] \in {"ready", "blocked", "in_progress", "done"}
    /\ HasActiveEpic(d) =>
           \E i \in DOMAIN Get(d, "epics", <<>>) :
               "id" \in DOMAIN d["epics"][i] /\ d["epics"][i]["id"] = d["active_epic"]["id"]
    /\ ActiveEpicCapHolds(d)
    /\ Cardinality(InProgressStories(d)) <= max_agents_total(d)
    /\ max_agents_total(d) > 0

\* The ids that two stories of the ledger share; a story whose id is the
\* empty string has no id.
SharedIds(d) ==
    {StoriesOf(d)[i]["id"] :
        i \in {k \in DOMAIN StoriesOf(d) :
                 /\ "id" \in DOMAIN StoriesOf(d)[k]
                 /\ StoriesOf(d)[k]["id"] # <<>>
                 /\ \E j \in DOMAIN StoriesOf(d) :
                        /\ j # k /\ "id" \in DOMAIN StoriesOf(d)[j]
                        /\ StoriesOf(d)[j]["id"] = StoriesOf(d)[k]["id"]}}

NamesDuplicate(errors, id) ==
    \E e \in DOMAIN errors : errors[e] = [text |-> "Duplicate story ID", story |-> id]

\* C10 as stated (Spec): a ledger validate_work_index accepts satisfies
\* invariants 1 to 6, and a ledger with two stories sharing an id is
\* rejected with an error naming that id.
C10_SoundAndNamesDuplicates ==
    result.op = "validate" =>
        /\ result.is_valid => LedgerInvariants(data)
        /\ \A id \in SharedIds(data) :
               ~result.is_valid /\ NamesDuplicate(result.errors, id)

\* C10 amended (Spec): as stated, except that the error naming the shared id
\* is given when the six required fields are all present; without one of
\* them the ledger is still rejected, with the missing-field errors alone.
C10_ValidatorSound ==
    result.op = "validate" =>
        /\ result.is_valid => LedgerInvariants(data)
        /\ \A id \in SharedIds(data) :
               /\ ~result.is_valid
               /\ {required_fields[i] : i \in DOMAIN required_fields} \subseteq DOMAIN data
                  => NamesDuplicate(result.errors, id)

\* C10 witness: an accepted ledger with stories in progress has been
\* validated after an assignment.
C10_Witness ==
    /\ result.op = "validate" /\ result.is_valid
    /\ assigned # {}
    /\ Cardinality(InProgressStories(data)) >= 2

\* C10 second case reached: a ledger with a shared id has been rejected with
\* the error naming it.
C10_DuplicateRejected ==
    /\ result.op = "validate" /\ ~result.is_valid
    /\ \E id \in SharedIds(data) : NamesDuplicate(result.errors, id)

\* The stored ledger is the merge of both agents' successful assignments.
BothCommitted == \A a \in Agents : local[a].pc = "committed"

\* C11 (SpecMerge): two agents load the same accepted ledger, each assigns a
\* different story with success, and both changes are committed in one
\* ledger; when that ledger has more in_progress stories than
\* max_agents_total, or more in_progress stories of the active epic than the
\* epic's agents_allowed, validate_work_index rejects it.
C11_DoubleCommitDetected ==
    (result.op = "main_validate" /\ BothCommitted) =>
        ((\/ Cardinality(InProgressStories(disk)) > max_agents_total(disk)
          \/ /\ HasActiveEpic(disk)
             /\ Cardinality(EpicStoriesInProgress(disk, disk["active_epic"]["id"]))
                    > epic_agents_allowed(disk, disk["active_epic"]["id"]))
            => ~result.is_valid)

\* C11 witness: the merged ledger holds both assignments, exceeds the global
\* cap by one and not the active epic's allowance, and has been rejected.
C11_Witness ==
    /\ result.op = "main_validate" /\ ~result.is_valid
    /\ BothCommitted
    /\ Cardinality(assigned) = 2
    /\ \A a \in Agents :
           LET story == StoriesOf(disk)[FirstWithId(disk, local[a].story_id)]
           IN  story["status"] = "in_progress" /\ story["assigned_to"] = a
    /\ Cardinality(InProgressStories(disk)) = max_agents_total(disk) + 1
    /\ ActiveEpicCapHolds(disk)

\* C11 second case reached: the merged ledger is within the global cap, holds
\* more stories of the active epic than its allowance, and has been rejected.
C11_EpicOverCommitRejected ==
    /\ result.op = "main_validate" /\ ~result.is_valid
    /\ BothCommitted
    /\ Cardinality(InProgressStories(disk)) <= max_agents_total(disk)
    /\ ~ActiveEpicCapHolds(disk)

\* The stored ledger records story id as in_progress.
RecordedInProgress(d, id) ==
    /\ FirstWithId(d, id) # 0
    /\ "status" \in DOMAIN StoriesOf(d)[FirstWithId(d, id)]
    /\ StoriesOf(d)[FirstWithId(d, id)]["status"] = "in_progress"

\* The stored ledger records story id as assigned to agent_id.
RecordedAssignee(d, id, agent_id) ==
    /\ FirstWithId(d, id) # 0
    /\ "assigned_to" \in DOMAIN StoriesOf(d)[FirstWithId(d, id)]
    /\ StoriesOf(d)[FirstWithId(d, id)]["assigned_to"] = agent_id

\* C12 (SpecMain): when the load, assign, save cycles run one at a time, an
\* assignment reported successful is in the stored ledger after its cycle,
\* in_progress and with the agent's id; every later cycle leaves the record
\* of an assigned story as it was; and a story already reported assigned is
\* never reported assigned again.
C12_SerializedCycles ==
    [][result'.op = "assign" =>
        /\ result'.ok =>
              /\ result'.story_id \notin assigned
              /\ RecordedInProgress(disk', result'.story_id)
              /\ Truthy(result'.agent_id) =>
                     RecordedAssignee(disk', result'.story_id, result'.agent_id)
        /\ \A id \in assigned :
              /\ RecordedInProgress(disk', id)
              /\ StoriesOf(disk')[FirstWithId(disk', id)]
                     = StoriesOf(disk)[FirstWithId(disk, id)]]_vars

\* C12 witness: agent a was assigned one story, agent b another, and a later
\* cycle that asked for a's story was refused; both records are stored.
C12_Witness ==
    /\ result.op = "assign" /\ ~result.ok
    /\ result.message.text = "is already in_progress"
    /\ result.agent_id = "b"
    /\ RecordedAssignee(disk, result.story_id, "a")
    /\ \E id \in assigned : RecordedAssignee(disk, id, "b")

\* The six required top-level fields.
RequiredFieldNames ==
    {"version", "product_version", "concurrency", "active_epic", "epics", "stories"}

\* C13 (Spec): when a required top-level field is absent, validate_work_index
\* returns invalid, with one missing-field error for each absent field and no
\* other error, and with no warnings, whatever else is wrong with the ledger.
C13_MissingFieldShortCircuit ==
    (result.op = "validate" /\ RequiredFieldNames \ DOMAIN data # {}) =>
        /\ ~result.is_valid
        /\ Len(result.errors) = Cardinality(RequiredFieldNames \ DOMAIN data)
        /\ \A f \in RequiredFieldNames \ DOMAIN data :
               \E e \in DOMAIN result.errors :
                   result.errors[e] = [text |-> "Missing required field", field |-> f]
        /\ result.warnings = <<>>

\* C13 witness: a ledger without three of the fields, with a shared story id
\* and stories without acceptance criteria, has been validated.
C13_Witness ==
    /\ result.op = "validate" /\ ~result.is_valid
    /\ RequiredFieldNames \ DOMAIN data = {"concurrency", "active_epic", "epics"}
    /\ SharedIds(data) # {}
    /\ \E i \in DOMAIN StoriesOf(data) :
           "acceptance_criteria" \in DOMAIN StoriesOf(data)[i]
               /\ StoriesOf(data)[i]["acceptance_criteria"] = <<>>
    /\ Len(result.errors) = 3

\* C14 witness: a ledger has been reported valid with a warning for a story
\* without acceptance criteria and the warning for the product version.
C14_Witness ==
    /\ result.op = "validate" /\ result.is_valid
    /\ \E w \in DOMAIN result.warnings :
           result.warnings[w].text = "Story has no acceptance criteria"
    /\ \E w \in DOMAIN result.warnings :
           result.warnings[w].text = "Product version should start with 'v'"

\* The warnings the ledger calls for: one for each story with an id and no
\* acceptance criteria, in ledger order, then one for a product version that
\* does not start with 'v'.
ExpectedWarnings(d) ==
    LET NoCriteria(i) ==
            /\ "id" \in DOMAIN StoriesOf(d)[i] /\ StoriesOf(d)[i]["id"] # <<>>
            /\ ("acceptance_criteria" \in DOMAIN StoriesOf(d)[i]
                    => StoriesOf(d)[i]["acceptance_criteria"] = <<>>)
        bare == {i \in DOMAIN StoriesOf(d) : NoCriteria(i)}
        version == d["product_version"]["current"]
    IN  [kind |-> "warnings",
         stories |-> {StoriesOf(d)[i]["id"] : i \in bare},
         count |-> Cardinality(bare),
         version |-> version # <<>> /\ version[1] # "v"]

\* The warnings a result lists, in the same form.
ListedWarnings(warnings) ==
    LET criteria == {w \in DOMAIN warnings :
                        warnings[w].text = "Story has no acceptance criteria"}
        version == {w \in DOMAIN warnings :
                        warnings[w].text = "Product version should start with 'v'"}
    IN  [kind |-> "warnings",
         stories |-> {warnings[w].story : w \in criteria},
         count |-> Cardinality(criteria),
         version |-> version # {}]

\* A ledger with all required fields whose only findings are warnings is
\* reported valid, and the result lists exactly the warnings the ledger calls
\* for.
WarningsListed ==
    (result.op = "validate" /\ RequiredFieldNames \subseteq DOMAIN data
        /\ result.errors = <<>>)
      => /\ result.is_valid
         /\ ListedWarnings(result.warnings) = ExpectedWarnings(data)
         /\ Len(result.warnings) = ExpectedWarnings(data).count
                + (IF ExpectedWarnings(data).version THEN 1 ELSE 0)

\* C14 (Spec): validate_work_index reports valid exactly when it reports no
\* error, whatever warnings it reports; a ledger whose only findings are
\* stories without acceptance criteria and a product version that does not
\* start with 'v' is reported valid with those warnings listed.
C14_ValidIffNoErrors ==
    /\ result.op = "validate" => (result.is_valid <=> result.errors = <<>>)
    /\ WarningsListed

\* The ledger file is among the changed files of the last check_conflicts call.
LedgerPathListed ==
    \E i \in DOMAIN result.changed_files :
        result.changed_files[i] = "product-development/agentic_work_index.yaml"

\* The result of the last call lists the warning of the diff heuristic.
HeuristicWarned ==
    \E w \in DOMAIN result.warnings :
        result.warnings[w].text = "Multiple stories being set to 'in_progress'"

\* C15 (SpecConflicts): when the ledger file is not among the changed files,
\* check_story_conflicts returns valid with no errors and no warnings,
\* whatever the diff holds and whether or not the ledger would be accepted.
C15_ConflictNoOp ==
    (result.op = "check_conflicts" /\ ~LedgerPathListed) =>
        /\ result.is_valid
        /\ result.errors = <<>>
        /\ result.warnings = <<>>

\* C15 witness: another file was changed, the diff adds two in_progress
\* lines, and validate_work_index would reject the ledger.
C15_Witness ==
    /\ result.op = "check_conflicts" /\ ~LedgerPathListed
    /\ result.changed_files # <<>>
    /\ Len(in_progress_changes(result.diff)) >= 2
    /\ result.is_valid
    /\ ~validate_work_index(data).is_valid

\* The positions at which the lines of a diff start.
LineStarts(diff) == {k \in DOMAIN diff : k = 1 \/ diff[k - 1] = "\n"}

\* The line that starts at k is an added or removed line  status: "<word>".
IsStatusLine(diff, k) ==
    /\ k + 4 <= Len(diff)
    /\ diff[k] \in {"+", "-"}
    /\ diff[k + 1] = " " /\ diff[k + 2] = "status:" /\ diff[k + 3] = " "
    /\ diff[k + 4] \in {"\"in_progress\"", "\"ready\"", "\"done\""}

StatusLines(diff) == {k \in LineStarts(diff) : IsStatusLine(diff, k)}

\* The added lines  status: "in_progress".
AddedInProgressLines(diff) ==
    {k \in StatusLines(diff) : diff[k] = "+" /\ diff[k + 4] = "\"in_progress\""}

\* The removed lines  status: "in_progress".
RemovedInProgressLines(diff) ==
    {k \in StatusLines(diff) : diff[k] = "-" /\ diff[k + 4] = "\"in_progress\""}

\* C16 as stated (SpecConflicts): with the ledger file among the changed
\* files, the warning of the heuristic is given exactly when the diff has at
\* least two status lines and more than one of them is an added in_progress
\* line; removed in_progress lines do not count.
C16_AddedLinesTrigger ==
    (result.op = "check_conflicts" /\ LedgerPathListed) =>
        (HeuristicWarned <=>
            /\ Cardinality(StatusLines(result.diff)) >= 2
            /\ Cardinality(AddedInProgressLines(result.diff)) > 1)

\* C16, the divergence reached: the warning was given for a diff that adds no
\* in_progress line and removes two.
C16_RemovedLinesWarned ==
    /\ result.op = "check_conflicts" /\ LedgerPathListed
    /\ HeuristicWarned
    /\ AddedInProgressLines(result.diff) = {}
    /\ Cardinality(RemovedInProgressLines(result.diff)) = 2
    /\ Cardinality(StatusLines(result.diff)) = 2

\* C17 (SpecConflicts): with the ledger file among the changed files, the
\* errors are those of validate_work_index on the ledger, the warnings are
\* the warning of the heuristic, if given, followed by those of
\* validate_work_index, and the valid flag is that of validate_work_index.
C17_MergesValidation ==
    (result.op = "check_conflicts" /\ LedgerPathListed) =>
        LET v == validate_work_index(data)
        IN  /\ result.errors = v.errors
            /\ result.is_valid = v.is_valid
            /\ \/ result.warnings = v.warnings
               \/ /\ result.warnings # <<>>
                  /\ result.warnings[1].text = "Multiple stories being set to 'in_progress'"
                  /\ Tail(result.warnings) = v.warnings

\* C17 witness: the heuristic warned, the ledger has warnings of its own and
\* no errors, and the result is valid.
C17_Witness ==
    /\ result.op = "check_conflicts" /\ LedgerPathListed
    /\ Len(result.warnings) >= 3
    /\ result.warnings[1].text = "Multiple stories being set to 'in_progress'"
    /\ result.errors = <<>>
    /\ result.is_valid

\* C17 second case reached: the heuristic warned on a rejected ledger.
C17_RejectedWithHeuristic ==
    /\ result.op = "check_conflicts" /\ LedgerPathListed
    /\ HeuristicWarned
    /\ ~result.is_valid /\ Len(result.errors) >= 2

\* Every story with an assignee is in_progress and has the time of the
\* assignment, and no story has the time without the assignee.
AssigneeInvariant(d) ==
    \A i \in DOMAIN StoriesOf(d) :
        LET story == StoriesOf(d)[i]
        IN  /\ "assigned_to" \in DOMAIN story =>
                  /\ "status" \in DOMAIN story /\ story["status"] = "in_progress"
                  /\ "assigned_at" \in DOMAIN story
            /\ "assigned_at" \in DOMAIN story => "assigned_to" \in DOMAIN story

\* C18 (Spec): from a ledger in which no story has assigned_to or
\* assigned_at, after any sequence of assign calls every story with
\* assigned_to is in_progress and has assigned_at, no story has assigned_at
\* without assigned_to, and a successful assign with an agent id sets
\* assigned_to to exactly that id.
C18_AssigneeInvariant ==
    [][/\ AssigneeInvariant(data) /\ AssigneeInvariant(data')
       /\ (result'.op = "assign" /\ result'.ok /\ Truthy(result'.agent_id))
              => RecordedAssignee(data', result'.story_id, result'.agent_id)]_vars

\* C18, the start: no story of a ledger the calls start from has assigned_to
\* or assigned_at.
C18_StartsUnassigned ==
    assigned = {} =>
        \A i \in DOMAIN StoriesOf(data) :
            {"assigned_to", "assigned_at"} \cap DOMAIN StoriesOf(data)[i] = {}

\* C18 witness: one story was assigned to agent a and carries the assignee
\* and the time, another was assigned without an agent id and carries
\* neither.
C18_Witness ==
    /\ result.op = "assign" /\ result.ok /\ result.agent_id = "a"
    /\ RecordedAssignee(data, result.story_id, "a")
    /\ "assigned_at" \in DOMAIN StoriesOf(data)[FirstWithId(data, result.story_id)]
    /\ \E id \in assigned :
           /\ RecordedInProgress(data, id)
           /\ "assigned_to" \notin DOMAIN StoriesOf(data)[FirstWithId(data, id)]

\* The fields a successful assign may write.
AssignedFields == {"status", "assigned_to", "assigned_at"}

\* Ledger e is ledger d but for the fields an assign may write of story i.
SameButStory(d, e, i) ==
    /\ DOMAIN e = DOMAIN d
    /\ \A k \in DOMAIN d \ {"stories"} : e[k] = d[k]
    /\ Len(e["stories"]) = Len(d["stories"])
    /\ \A j \in DOMAIN d["stories"] : j # i => e["stories"][j] = d["stories"][j]
    /\ DOMAIN e["stories"][i] \ AssignedFields = DOMAIN d["stories"][i] \ AssignedFields
    /\ \A f \in DOMAIN d["stories"][i] \ AssignedFields :
           e["stories"][i][f] = d["stories"][i][f]

\* C19 (Spec): a successful assign changes only status, assigned_to and
\* assigned_at of the first story, in ledger order, with the requested id;
\* the other stories, the number, order and ids of the stories, epics,
\* active_epic, concurrency and product_version stay as they were.
C19_AssignFrame ==
    [][(result'.op = "assign" /\ result'.ok)
          => /\ FirstWithId(data, result'.story_id) # 0
             /\ SameButStory(data, data', FirstWithId(data, result'.story_id))]_vars

\* C19 witness: the requested id is shared by two stories; the first of them
\* is now in_progress and the second is as it was.
C19_Witness ==
    /\ result.op = "assign" /\ result.ok
    /\ result.story_id \in SharedIds(data)
    /\ RecordedInProgress(data, result.story_id)
    /\ \E j \in DOMAIN StoriesOf(data) :
           /\ j > FirstWithId(data, result.story_id)
           /\ StoriesOf(data)[j] = Story(result.story_id, "ready")
           /\ StoriesOf(disk)[j] = StoriesOf(data)[j]

\* The global check and the per-EPIC check let story id in.
CapacityChecksPass(d, id) ==
    /\ Cardinality(InProgressStories(d)) < max_agents_total(d)
    /\ (HasActiveEpic(d) /\ MapsToEpic(id, d["active_epic"]["id"]))
           => Cardinality(SamePrefixInProgress(d, id))
                  < epic_agents_allowed(d, d["active_epic"]["id"])

\* C20 (Spec): assign on an existing story whose status is neither
\* in_progress nor done (blocked, ready, missing, or no status of the enum)
\* succeeds and sets it to in_progress whenever the global and the per-EPIC
\* capacity checks pass.
C20_OnlyInProgressAndDoneBlock ==
    [][(/\ result'.op = "assign"
        /\ Assignable(data, result'.story_id)
        /\ CapacityChecksPass(data, result'.story_id))
          => /\ result'.ok
             /\ RecordedInProgress(data', result'.story_id)]_vars

\* The last call assigned a story that had this status in the ledger the
\* calls started from.
AssignedFromStatus(status) ==
    /\ result.op = "assign" /\ result.ok
    /\ RecordedInProgress(data, result.story_id)
    /\ FirstWithId(disk, result.story_id) # 0
    /\ LET before == StoriesOf(disk)[FirstWithId(disk, result.story_id)]
       IN  IF status = None
           THEN "status" \notin DOMAIN before
           ELSE "status" \in DOMAIN before /\ before["status"] = status

\* C20 witness: a blocked story has been assigned.
C20_Witness == AssignedFromStatus("blocked")

\* C20 further cases reached: a story without status, and one whose status
\* is not of the enum, have been assigned.
C20_MissingStatusAssigned == AssignedFromStatus(None)

C20_UnknownStatusAssigned == AssignedFromStatus("bogus")

\* The ledger's max_agents_total, 0 when the ledger has none.
MaxAgentsOrZero(d) ==
    IF "concurrency" \in DOMAIN d /\ "max_agents_total" \in DOMAIN d["concurrency"]
    THEN d["concurrency"]["max_agents_total"]
    ELSE 0

\* max(0, max_agents_total - in_progress count) of the ledger the calls
\* started from; in Spec that ledger is still the stored one.
AdmissionBudget ==
    IF MaxAgentsOrZero(disk) > Cardinality(InProgressStories(disk))
    THEN MaxAgentsOrZero(disk) - Cardinality(InProgressStories(disk))
    ELSE 0

\* C21 (Spec): in any sequence of assign calls no story leaves in_progress,
\* the in_progress count never decreases, every success is for a story that
\* no earlier call was granted, and the number of successes is at most
\* max(0, max_agents_total - initial in_progress count); once that many
\* have succeeded every further assign is refused, and with max_agents_total
\* absent or not positive none succeeds.
C21_BoundedAdmission ==
    [][/\ InProgressStories(data) \subseteq InProgressStories(data')
       /\ Cardinality(InProgressStories(data')) >= Cardinality(InProgressStories(data))
       /\ Cardinality(assigned') <= AdmissionBudget
       /\ (result'.op = "assign" /\ result'.ok) =>
              /\ result'.story_id \notin assigned
              /\ Cardinality(assigned') = Cardinality(assigned) + 1
              /\ MaxAgentsOrZero(data) > 0
       /\ (result'.op = "assign" /\ Cardinality(assigned) >= AdmissionBudget)
              => ~result'.ok]_vars

\* C21 witness: a story was in progress from the start, the budget that was
\* left is used up, and the last call, for a story that could be assigned,
\* was refused for the global reason.
C21_Witness ==
    /\ result.op = "assign" /\ ~result.ok
    /\ result.message.text = "global concurrency limit reached"
    /\ Cardinality(InProgressStories(disk)) >= 1
    /\ AdmissionBudget >= 1
    /\ Cardinality(assigned) = AdmissionBudget
    /\ Assignable(data, result.story_id)

\* C21 further case reached: from a ledger with nothing in progress two
\* assignments were granted and the third was refused.
C21_BudgetOfTwoUsed ==
    /\ result.op = "assign" /\ ~result.ok
    /\ InProgressStories(disk) = {}
    /\ AdmissionBudget = 2
    /\ Cardinality(assigned) = 2
    /\ Assignable(data, result.story_id)

\* C21 second case reached: a ledger without max_agents_total has refused an
\* assignable story.
C21_NoLimitNoAdmission ==
    /\ result.op = "assign" /\ ~result.ok
    /\ "concurrency" \in DOMAIN data
    /\ "max_agents_total" \notin DOMAIN data["concurrency"]
    /\ Assignable(data, result.story_id)

\* C22 (SpecInterleaved): when the load, assign_story, save steps of several
\* agents interleave in any order on one stored ledger whose in_progress
\* count is at most max_agents_total to begin with, the in_progress count
\* of every stored ledger is at most max_agents_total.
C22_StoredLedgerCapped ==
    Cardinality(InProgressStories(disk)) <= MaxAgentsOrZero(disk)

\* C22 witness: both agents loaded the same ledger, each was granted a
\* different story and saved; the second save overwrote the first, so the
\* stored ledger is full and lacks an assignment that was reported granted.
C22_Witness ==
    /\ \A a \in Agents : local[a] = NotStarted
    /\ Cardinality(assigned) = 2
    /\ \E id \in assigned : ~RecordedInProgress(disk, id)
    /\ \E id \in assigned : RecordedInProgress(disk, id)
    /\ Cardinality(InProgressStories(disk)) = MaxAgentsOrZero(disk)

====
